---------------------------- MODULE Spec2Model ----------------------------
(***************************************************************************)
(* A model of usdb_syncer's song loader (src/usdb_syncer/song_loader.py):  *)
(* SongLoader.run / _run_inner and the stages they call, over an abstract  *)
(* file system, trash, library store and notification bus.                 *)
(*                                                                         *)
(* Strings that the code concatenates (file and folder names) are          *)
(* sequences of tokens, so that f"{name}.{ext}" and the stem + ending      *)
(* concatenations are computed, not assumed.  A path is <<dir, name>>;     *)
(* the absent path, the absent name and the absent resource are <<>>,      *)
(* <<>> and "" (all falsy in the Python source).                           *)
(***************************************************************************)
EXTENDS Naturals, Integers, Sequences, FiniteSets, TLC

(***************************************************************************)
(* Bounds of the model.                                                    *)
(***************************************************************************)
\* runs a song may be submitted for
MaxRuns == 2
\* changes the user makes to recorded files between runs
MaxUserEdits == 1
\* variants (children) of the FilterItem
MaxVariants == 4

\* islice(..., 10) in _maybe_download_audio / _maybe_download_video
MaxCandidates == 10

Songs == {1, 2}

\* order of TempResourceFiles.__iter__ and SyncMeta.all_resource_files
Kinds == <<"txt", "audio", "video", "cover", "background">>
KindSet == {Kinds[i] : i \in 1..Len(Kinds)}
\* the four kinds seeded from the prior record (txt is always rewritten)
SeededKinds == {"audio", "video", "cover", "background"}

\* resources whose fetch succeeds, and resources whose fetch fails
Working == {"urlA", "urlB", ".m4a", "covA", "covS", "bgA"}
Broken == {"urlX", "covX", "bgX"}

NoPath == <<>>
NoName == <<>>
NoResource == ""

(***************************************************************************)
(* utils: names.                                                           *)
(***************************************************************************)
SuffixTokens == <<" (1)", " (2)", " (3)">>
SuffixSet == {SuffixTokens[i] : i \in 1..Len(SuffixTokens)}

\* utils.is_name_maybe_with_suffix(text, name): text is name or "name (n)"
is_name_maybe_with_suffix(text, name) ==
    /\ Len(text) >= 1
    /\ text[1] = name
    /\ \/ Len(text) = 1
       \/ Len(text) = 2 /\ text[2] \in SuffixSet

RECURSIVE NextUniqueFrom(_, _, _)
NextUniqueFrom(existing, stem, n) ==
    IF n > Len(SuffixTokens) THEN <<stem, SuffixTokens[Len(SuffixTokens)]>>
    ELSE IF <<stem, SuffixTokens[n]>> \notin existing
         THEN <<stem, SuffixTokens[n]>>
         ELSE NextUniqueFrom(existing, stem, n + 1)

\* utils.next_unique_directory(path): the first of path, "path (1)", ...
\* that does not exist; the directory is not created
next_unique_directory(existing, stem) ==
    IF <<stem>> \notin existing THEN <<stem>>
    ELSE NextUniqueFrom(existing, stem, 1)

ImageTags == {" [CO]", " [BG]"}

RECURSIVE LastDot(_, _)
LastDot(name, i) ==
    IF i = 0 THEN 0
    ELSE IF name[i] = "." THEN i ELSE LastDot(name, i - 1)

\* utils.resource_file_ending(name): the suffix of the name from its last
\* dot, including a preceding " [CO]" or " [BG]"; empty if there is none
resource_file_ending(name) ==
    LET d == LastDot(name, Len(name))
        from == IF d >= 3 /\ name[d - 1] \in ImageTags THEN d - 1 ELSE d
    IN  IF d < 2 \/ d = Len(name) THEN <<>>
        ELSE SubSeq(name, from, Len(name))

(***************************************************************************)
(* Locations.                                                              *)
(***************************************************************************)
\* the final path component of Locations.file_path / temp_path
PathName(stem, file, ext) ==
    LET name == IF file # NoName THEN file ELSE <<stem>>
    IN  IF ext # <<>> THEN name \o <<".">> \o ext ELSE name

\* Locations.filename_with_ending
filename_with_ending(stem, filename) == <<stem>> \o resource_file_ending(filename)

\* Locations.file_path
file_path(folder, stem, file, ext) == <<folder, PathName(stem, file, ext)>>

TempDir(s) == <<"tmp", IF s = 1 THEN "run-1" ELSE "run-2">>

\* Locations.temp_path
temp_path(s, stem, file, ext) == <<TempDir(s), PathName(stem, file, ext)>>

(***************************************************************************)
(* Data model.                                                             *)
(***************************************************************************)
\* sync_meta.ResourceFile; NoFile stands for None
NoFile == [fname |-> NoName, resource |-> NoResource]
ResourceFile_new(path, resource) == [fname |-> path[2], resource |-> resource]

NoFiles == [k \in KindSet |-> NoFile]

\* sync_meta.SyncMeta; NoMeta stands for None.  folder is path.parent and
\* the record file is named after the id (SyncMetaId.to_filename).
NoMeta == [id |-> "", folder |-> <<>>, pinned |-> FALSE, files |-> NoFiles]

IdTokens == <<"id-1a", "id-1b", "id-1c", "id-1d", "id-2a", "id-2b", "id-2c", "id-2d">>
\* SyncMetaId.new(): an id no other minting yields (song s, its r-th run)
SyncMetaId_new(s, r) == IdTokens[(s - 1) * 4 + r]
to_filename(id) == <<id, ".", "usdb">>

\* SyncMeta.new(song_id, folder, meta_tags)
SyncMeta_new(s, r, folder) ==
    [id |-> SyncMetaId_new(s, r), folder |-> folder, pinned |-> FALSE, files |-> NoFiles]

\* TempResourceFile
NoTemp == [old_path |-> NoPath, new_path |-> NoPath, resource |-> NoResource]

\* TempResourceFile.path
TempPath(t) == IF t.new_path # NoPath THEN t.new_path ELSE t.old_path

\* TempResourceFile.to_resource_file (via path_and_resource)
to_resource_file(t) ==
    IF TempPath(t) # NoPath /\ t.resource # NoResource
    THEN ResourceFile_new(TempPath(t), t.resource)
    ELSE NoFile

(***************************************************************************)
(* Inputs: what USDB serves for a song, and the download options.          *)
(***************************************************************************)
\* metadata-declared resources (the #VIDEO meta tags), the comment videos
\* and the small cover of the details page
BlankMetadata ==
    [stem |-> "X - Y", audio |-> "", video |-> "", comments |-> <<>>,
     cover |-> "", small_cover |-> "", background |-> "",
     audio_only |-> FALSE]

\* comment videos that fail, as many as make the first video that downloads
\* the candidate after the last one a stage examines
ManyComments ==
    [i \in 1..MaxCandidates |-> IF i < MaxCandidates THEN "urlX" ELSE "urlB"]

\* the declared audio and video; a declared video that fails is also named
\* by a comment; under the other title the resources download; a declared
\* audio that fails, before a video that downloads; a declared audio whose
\* resource string is one the tag stage matches on
AudioVideoMetadata ==
    { [BlankMetadata EXCEPT !.audio = a, !.video = v,
                            !.comments = IF v = "urlX" THEN <<"urlX">> ELSE <<>>] :
        a \in {"", "urlA", "urlB"}, v \in {"", "urlA", "urlX"} }
    \cup
    { [BlankMetadata EXCEPT !.stem = "X - Z", !.audio = a, !.video = v] :
        a \in {"urlA", "urlB"}, v \in {"", "urlA"} }
    \cup
    { [BlankMetadata EXCEPT !.audio = "urlX", !.video = "urlA"] }
    \cup
    { [BlankMetadata EXCEPT !.video = "urlX", !.comments = ManyComments] }
    \cup
    { [BlankMetadata EXCEPT !.audio = ".m4a"] }

\* an audio-only song that declares a video all the same
AudioOnlyMetadata ==
    { [BlankMetadata EXCEPT !.audio = "urlA", !.video = "urlA", !.audio_only = TRUE] }

\* the cover of the meta tags, the small cover of the details page, and
\* the background
ImageMetadata ==
    { [BlankMetadata EXCEPT !.audio = "urlA", !.cover = im[1], !.small_cover = im[2],
                            !.background = im[3]] :
        im \in {<<"covA", "", "bgA">>, <<"covX", "", "bgX">>, <<"covA", "", "bgX">>,
                <<"", "covS", "">>, <<"covA", "covS", "bgA">>} }

\* a song with a video that declares a background as well
VideoBackgroundMetadata ==
    { [BlankMetadata EXCEPT !.audio = "urlA", !.video = "urlA", !.background = "bgA"] }

Metadata ==
    AudioVideoMetadata \cup AudioOnlyMetadata \cup ImageMetadata
        \cup VideoBackgroundMetadata

\* download_options(): which kinds are enabled, the formats, and whether a
\* background is wanted when the song has a video
AllOptions ==
    [audio |-> TRUE, video |-> TRUE, cover |-> TRUE, background |-> "always",
     txt |-> TRUE, audio_ext |-> <<"mp3">>, video_ext |-> <<"mp4">>]

OptionProfiles ==
    { AllOptions,
      [AllOptions EXCEPT !.video = FALSE, !.background = "only_if_no_video"],
      [AllOptions EXCEPT !.audio = FALSE, !.cover = FALSE, !.background = "never",
                         !.txt = FALSE] }

\* Context
NoCtx ==
    [song_meta |-> NoMeta, artist_title |-> "", md |-> BlankMetadata,
     folder |-> <<>>, stem |-> "", out |-> [k \in KindSet |-> NoTemp],
     headers |-> [k \in SeededKinds |-> NoName],
     \* whether metadata, options and files are those of the run before
     rerun |-> FALSE]

\* UsdbSong as handed to the loader and as kept by the library
NewSong == [sync_meta |-> NoMeta, status |-> "NONE", artist_title |-> ""]

(***************************************************************************)
(* State.                                                                  *)
(***************************************************************************)
VARIABLES
    catalog,    \* the metadata USDB may serve
    profiles,   \* the download options the user may have configured
    budget,     \* per song: submissions still to come
    runs,       \* per song: submissions so far
    store,      \* library store: per song its UsdbSong, present or not
    song,       \* per song: the object the current loader was created with
    opts,       \* per song: the Options of the current loader
    ctx,        \* per song: the Context of the current run
    pc,         \* per song: position of the run
    dirs,       \* existing directories
    files,      \* existing files, as paths
    stale,      \* recorded files changed on disk since they were recorded
    trash,      \* per song: paths the current run moved to the trash
    fetched,    \* per song: fetcher calls of the current run, <<kind, url>>
    events,     \* per song: events the current run posted
    db,         \* per song: store transactions of the current run
    edits,      \* user changes so far
    before,     \* per song: the directories and files when the run started
    last,       \* per song: metadata and options of the run that committed
                \* the record, while the files are as that run left them
    tagged,     \* per song: tag writer calls of the current run
    child_checked,     \* filter tree: per row of the FilterItem, the variant's checked
    checked_children,  \* filter tree: FilterItem.checked_children
    filter_checked,    \* filter tree: FilterItem.checked
    filter_checkable,  \* filter tree: FilterItem.checkable
    toggled            \* filter tree: the items the last toggle_checked returned

\* the state of the song loader and its library
loader == <<catalog, profiles, budget, runs, store, song, opts, ctx, pc, dirs, files,
            stale, trash, fetched, events, db, edits, before, last, tagged>>

\* the state of the filter tree
tree == <<child_checked, checked_children, filter_checked, filter_checkable, toggled>>

vars == <<loader, tree>>

NoDb == [transactions |-> 0, upserts |-> 0, deletes |-> 0]
NoSnapshot == [dirs |-> {}, files |-> {}]
NoLast == [valid |-> FALSE, md |-> BlankMetadata, opts |-> AllOptions]

\* row_in_parent of the VariantItems of the FilterItem
Rows == 0..(MaxVariants - 1)

\* a FilterItem and its VariantItems as constructed: nothing is checked
TreeNew ==
    /\ child_checked = [row \in Rows |-> FALSE]
    /\ checked_children = {}
    /\ filter_checked = FALSE
    /\ filter_checkable = FALSE
    /\ toggled = <<>>

InitCommon ==
    /\ TreeNew
    /\ runs = [s \in Songs |-> 0]
    /\ store = [s \in Songs |-> [present |-> TRUE, song |-> NewSong]]
    /\ song = [s \in Songs |-> NewSong]
    /\ opts = [s \in Songs |-> AllOptions]
    /\ ctx = [s \in Songs |-> NoCtx]
    /\ pc = [s \in Songs |-> "idle"]
    /\ files = {}
    /\ stale = {}
    /\ trash = [s \in Songs |-> <<>>]
    /\ fetched = [s \in Songs |-> <<>>]
    /\ tagged = [s \in Songs |-> <<>>]
    /\ events = [s \in Songs |-> <<>>]
    /\ db = [s \in Songs |-> NoDb]
    /\ edits = 0
    /\ before = [s \in Songs |-> NoSnapshot]
    /\ last = [s \in Songs |-> NoLast]

\* a folder of the song directory that belongs to no song of the library
ForeignDirs == {<<"X - Z">>}

\* one song of an empty library, downloaded repeatedly; the song directory
\* is empty or holds a foreign folder
Init ==
    /\ InitCommon
    /\ dirs \in SUBSET ForeignDirs
    /\ catalog = Metadata
    /\ profiles = OptionProfiles
    /\ budget = [s \in Songs |-> IF s = 1 THEN MaxRuns ELSE 0]

(***************************************************************************)
(* Collaborators.                                                          *)
(***************************************************************************)
\* resource_dl.download_audio / download_video / download_and_process_image:
\* whether the fetch of a resource yields a file
download_ok(url) == url \in Working

\* ResourceFile.is_in_sync(folder): the recorded file is in the folder and
\* was not changed since it was recorded
is_in_sync(old, folder, fs, changed) ==
    /\ <<folder, old.fname>> \in fs
    /\ <<folder, old.fname>> \notin changed

\* SongId.usdb_url()
usdb_url(s) == IF s = 1 THEN "usdb:1" ELSE "usdb:2"

\* Options.background_options.download_background(has_video)
download_background(o, has_video) ==
    \/ o.background = "always"
    \/ o.background = "only_if_no_video" /\ ~has_video

\* how a run ends: "aborted" and "failed" both leave status FAILED, the
\* first by the handler of UsdbLoginError, the second by that of Exception
Terminal == {"done", "aborted", "failed", "deleted", "escaped"}
Log(log, s, entries) == [log EXCEPT ![s] = @ \o entries]

(***************************************************************************)
(* download_songs: a loader for the song is handed to the thread pool.     *)
(***************************************************************************)
download_songs(s) ==
    /\ pc[s] \in {"idle", "done", "aborted", "failed", "escaped"}
    /\ budget[s] > 0
    /\ store[s].present
    /\ \E o \in profiles : opts' = [opts EXCEPT ![s] = o]
    /\ song' = [song EXCEPT ![s] = store[s].song]
    /\ budget' = [budget EXCEPT ![s] = @ - 1]
    /\ runs' = [runs EXCEPT ![s] = @ + 1]
    /\ ctx' = [ctx EXCEPT ![s] = NoCtx]
    /\ trash' = [trash EXCEPT ![s] = <<>>]
    /\ fetched' = [fetched EXCEPT ![s] = <<>>]
    /\ tagged' = [tagged EXCEPT ![s] = <<>>]
    /\ events' = [events EXCEPT ![s] = <<>>]
    /\ db' = [db EXCEPT ![s] = NoDb]
    /\ pc' = [pc EXCEPT ![s] = "queued"]
    /\ UNCHANGED <<catalog, profiles, store, dirs, files, stale, edits, before,
                   last, tree>>

(***************************************************************************)
(* SongLoader._run_inner, up to the creation of the Context.               *)
(***************************************************************************)
\* status DOWNLOADING, SongChanged posted, the temporary directory created
RunStart(s) ==
    /\ pc[s] = "queued"
    /\ song' = [song EXCEPT ![s].status = "DOWNLOADING"]
    /\ events' = Log(events, s, <<"SongChanged">>)
    /\ dirs' = dirs \cup {TempDir(s)}
    /\ before' = [before EXCEPT ![s] = [dirs |-> dirs, files |-> files]]
    /\ pc' = [pc EXCEPT ![s] = "ctx"]
    /\ UNCHANGED <<catalog, profiles, budget, runs, store, opts, ctx, files, stale,
                   trash, fetched, db, edits, last, tagged, tree>>

\* Locations.new: the folder of the prior record, else a new unique one
Locations_new(meta, md, existing) ==
    [stem |-> md.stem,
     folder |-> IF meta # NoMeta THEN meta.folder
                ELSE next_unique_directory(existing, md.stem)]

\* Context.__attrs_post_init__: seed the four media slots from the record
SeedOut(meta, folder, stem, fs, changed) ==
    [k \in KindSet |->
        IF /\ k \in SeededKinds
           /\ meta.files[k] # NoFile
           /\ is_in_sync(meta.files[k], folder, fs, changed)
        THEN [NoTemp EXCEPT !.resource = meta.files[k].resource,
                            !.old_path = file_path(folder, stem, meta.files[k].fname, <<>>)]
        ELSE NoTemp]

\* Context.new with the metadata md fetched from USDB
Context_new(s, md) ==
    LET loc == Locations_new(song[s].sync_meta, md, dirs)
        meta == IF song[s].sync_meta # NoMeta THEN song[s].sync_meta
                ELSE SyncMeta_new(s, runs[s], loc.folder)
    IN  [song_meta |-> meta, artist_title |-> md.stem, md |-> md,
         folder |-> loc.folder, stem |-> loc.stem,
         out |-> SeedOut(song[s].sync_meta, loc.folder, loc.stem, files, stale),
         headers |-> [k \in SeededKinds |-> NoName],
         rerun |-> last[s].valid /\ last[s].md = md /\ last[s].opts = opts[s]]

ContextNew(s) ==
    /\ pc[s] = "ctx"
    /\ \E md \in catalog : ctx' = [ctx EXCEPT ![s] = Context_new(s, md)]
    /\ last' = [last EXCEPT ![s] = NoLast]
    /\ pc' = [pc EXCEPT ![s] = "audio"]
    /\ UNCHANGED <<catalog, profiles, budget, runs, store, song, opts, dirs, files,
                   stale, trash, fetched, events, db, edits, before, tagged, tree>>

\* faulty variant: the temporary directory outlives the with-block
KeepTempDir(s, ds) == ds

\* leaving the with-block of the temporary directory, normally or not
RemoveTempDir(s, ds) == ds \ {TempDir(s)}
RemoveTempFiles(s, fs) == {p \in fs : p[1] # TempDir(s)}

\* usdb_scraper.get_usdb_details raises UsdbLoginError or UsdbNotFoundError
MetadataFails(s) ==
    /\ pc[s] = "ctx"
    /\ \E e \in {"exc_login", "exc_not_found"} : pc' = [pc EXCEPT ![s] = e]
    /\ dirs' = RemoveTempDir(s, dirs)
    /\ files' = RemoveTempFiles(s, files)
    /\ UNCHANGED <<catalog, profiles, budget, runs, store, song, opts, ctx, stale,
                   trash, fetched, events, db, edits, before,
                   last, tagged, tree>>

InWithBlock == {"ctx", "audio", "video", "cover", "background", "tags", "cleanup",
                "folder", "txt", "persist", "exit_tmp"}

\* any other exception, raised where a step begins
RaiseUnexpected(s) ==
    /\ pc[s] \in InWithBlock \cup {"sync_meta"}
    /\ pc' = [pc EXCEPT ![s] = "exc_unexpected"]
    /\ dirs' = RemoveTempDir(s, dirs)
    /\ files' = RemoveTempFiles(s, files)
    /\ ctx' = [ctx EXCEPT ![s] = NoCtx]
    /\ UNCHANGED <<catalog, profiles, budget, runs, store, song, opts, stale,
                   trash, fetched, events, db, edits, before,
                   last, tagged, tree>>

(***************************************************************************)
(* Resource candidates.                                                    *)
(***************************************************************************)
Opt(url) == IF url # NoResource THEN <<url>> ELSE <<>>

\* Context.all_video_resources
all_video_resources(md) == Opt(md.video) \o md.comments

\* faulty variant: the video candidates only when no audio is declared
all_audio_resources_else(md) ==
    IF md.audio # NoResource THEN <<md.audio>> ELSE all_video_resources(md)

\* Context.all_audio_resources
all_audio_resources(md) == Opt(md.audio) \o all_video_resources(md)

\* Context.cover_url
cover_url(md) == IF md.cover # NoResource THEN md.cover ELSE md.small_cover

\* Context.background_url
background_url(md) == md.background

(***************************************************************************)
(* Download stage.                                                         *)
(***************************************************************************)
\* faulty variant: the walk does not stop at the seeded resource
RECURSIVE WalkIgnoringSeed(_, _, _, _)
WalkIgnoringSeed(cands, resource, i, tried) ==
    IF i > Len(cands) \/ i > MaxCandidates THEN [tried |-> tried, got |-> NoResource]
    ELSE IF download_ok(cands[i])
         THEN [tried |-> Append(tried, cands[i]), got |-> cands[i]]
         ELSE WalkIgnoringSeed(cands, resource, i + 1, Append(tried, cands[i]))

\* faulty variant: the walk examines every candidate the resolver yields
RECURSIVE WalkUncapped(_, _, _, _)
WalkUncapped(cands, resource, i, tried) ==
    IF i > Len(cands) THEN [tried |-> tried, got |-> NoResource]
    ELSE IF resource = cands[i] THEN [tried |-> tried, got |-> NoResource]
    ELSE IF download_ok(cands[i])
         THEN [tried |-> Append(tried, cands[i]), got |-> cands[i]]
         ELSE WalkUncapped(cands, resource, i + 1, Append(tried, cands[i]))

\* the loop of _maybe_download_audio / _maybe_download_video over
\* islice(candidates, 10): stop at the seeded resource, else fetch
RECURSIVE Walk(_, _, _, _)
Walk(cands, resource, i, tried) ==
    IF i > Len(cands) \/ i > MaxCandidates THEN [tried |-> tried, got |-> NoResource]
    ELSE IF resource = cands[i] THEN [tried |-> tried, got |-> NoResource]
    ELSE IF download_ok(cands[i])
         THEN [tried |-> Append(tried, cands[i]), got |-> cands[i]]
         ELSE Walk(cands, resource, i + 1, Append(tried, cands[i]))

Calls(kind, urls) == [i \in 1..Len(urls) |-> <<kind, urls[i]>>]

\* faulty variant: a stage whose fetches all failed empties the slot
StagedOrCleared(s, kind, w, path) ==
    /\ fetched' = Log(fetched, s, Calls(kind, w.tried))
    /\ IF w.got # NoResource
       THEN /\ ctx' = [ctx EXCEPT ![s].out[kind].resource = w.got,
                                  ![s].out[kind].new_path = path]
            /\ files' = files \cup {path}
       ELSE /\ ctx' = [ctx EXCEPT ![s].out[kind].resource =
                                      IF w.tried # <<>> THEN NoResource ELSE @]
            /\ UNCHANGED files

\* the state a stage leaves: the slot, the files, the fetcher calls
Staged(s, kind, w, path) ==
    /\ fetched' = Log(fetched, s, Calls(kind, w.tried))
    /\ IF w.got # NoResource
       THEN /\ ctx' = [ctx EXCEPT ![s].out[kind].resource = w.got,
                                  ![s].out[kind].new_path = path]
            /\ files' = files \cup {path}
       ELSE UNCHANGED <<ctx, files>>

Skipped == UNCHANGED <<ctx, files, fetched>>

_maybe_download_audio(s) ==
    /\ pc[s] = "audio"
    /\ IF ~opts[s].audio THEN Skipped
       ELSE Staged(s, "audio",
                   Walk(all_audio_resources(ctx[s].md), ctx[s].out["audio"].resource, 1, <<>>),
                   temp_path(s, ctx[s].stem, NoName, opts[s].audio_ext))
    /\ pc' = [pc EXCEPT ![s] = "video"]
    /\ UNCHANGED <<catalog, profiles, budget, runs, store, song, opts, dirs, stale,
                   trash, events, db, edits, before,
                   last, tagged, tree>>

\* faulty variant: the video is staged under the name of the audio
VideoStagedAsAudio(s) ==
    /\ pc[s] = "video"
    /\ IF ~opts[s].video \/ ctx[s].md.audio_only THEN Skipped
       ELSE Staged(s, "video",
                   Walk(all_video_resources(ctx[s].md), ctx[s].out["video"].resource, 1, <<>>),
                   temp_path(s, ctx[s].stem, NoName, opts[s].audio_ext))
    /\ pc' = [pc EXCEPT ![s] = "cover"]
    /\ UNCHANGED <<catalog, profiles, budget, runs, store, song, opts, dirs, stale,
                   trash, events, db, edits, before,
                   last, tagged, tree>>

\* faulty variant: the video of an audio-only song is downloaded
VideoIgnoresAudioOnly(s) ==
    /\ pc[s] = "video"
    /\ IF ~opts[s].video THEN Skipped
       ELSE Staged(s, "video",
                   Walk(all_video_resources(ctx[s].md), ctx[s].out["video"].resource, 1, <<>>),
                   temp_path(s, ctx[s].stem, NoName, opts[s].video_ext))
    /\ pc' = [pc EXCEPT ![s] = "cover"]
    /\ UNCHANGED <<catalog, profiles, budget, runs, store, song, opts, dirs, stale,
                   trash, events, db, edits, before,
                   last, tagged, tree>>

_maybe_download_video(s) ==
    /\ pc[s] = "video"
    /\ IF ~opts[s].video \/ ctx[s].md.audio_only THEN Skipped
       ELSE Staged(s, "video",
                   Walk(all_video_resources(ctx[s].md), ctx[s].out["video"].resource, 1, <<>>),
                   temp_path(s, ctx[s].stem, NoName, opts[s].video_ext))
    /\ pc' = [pc EXCEPT ![s] = "cover"]
    /\ UNCHANGED <<catalog, profiles, budget, runs, store, song, opts, dirs, stale,
                   trash, events, db, edits, before,
                   last, tagged, tree>>

\* the single attempt of _maybe_download_cover / _maybe_download_background
Single(url, resource) ==
    IF url = NoResource \/ resource = url THEN [tried |-> <<>>, got |-> NoResource]
    ELSE [tried |-> <<url>>, got |-> IF download_ok(url) THEN url ELSE NoResource]

\* the path download_and_process_image writes the image to
ImagePath(s, stem, tag) == <<TempDir(s), <<stem, tag, ".", "jpg">>>>

_maybe_download_cover(s) ==
    /\ pc[s] = "cover"
    /\ IF ~opts[s].cover THEN Skipped
       ELSE Staged(s, "cover",
                   Single(cover_url(ctx[s].md), ctx[s].out["cover"].resource),
                   ImagePath(s, ctx[s].stem, " [CO]"))
    /\ pc' = [pc EXCEPT ![s] = "background"]
    /\ UNCHANGED <<catalog, profiles, budget, runs, store, song, opts, dirs, stale,
                   trash, events, db, edits, before,
                   last, tagged, tree>>

_maybe_download_background(s) ==
    /\ pc[s] = "background"
    /\ IF \/ opts[s].background = "never"
          \/ ~download_background(opts[s], ctx[s].md.video # NoResource)
       THEN Skipped
       ELSE Staged(s, "background",
                   Single(background_url(ctx[s].md), ctx[s].out["background"].resource),
                   ImagePath(s, ctx[s].stem, " [BG]"))
    /\ pc' = [pc EXCEPT ![s] = "tags"]
    /\ UNCHANGED <<catalog, profiles, budget, runs, store, song, opts, dirs, stale,
                   trash, events, db, edits, before,
                   last, tagged, tree>>

\* the case patterns of the match statement in _maybe_write_audio_tags
TagWriters == {".m4a", ".mp3", ".ogg"}

\* TempResourceFile.path_and_resource
path_and_resource(out) ==
    IF TempPath(out) # NoPath /\ out.resource # NoResource
    THEN <<TempPath(out), out.resource>>
    ELSE <<>>

\* faulty variant: an exception of the tag writer leaves the stage
TagsWriterRaises(s) ==
    /\ pc[s] = "tags"
    /\ LET pr == path_and_resource(ctx[s].out["audio"])
       IN  IF ~opts[s].audio \/ pr = <<>> \/ pr[2] \notin TagWriters
           THEN /\ pc' = [pc EXCEPT ![s] = "cleanup"]
                /\ UNCHANGED tagged
           ELSE \E ok \in BOOLEAN :
                    /\ tagged' = Log(tagged, s, <<[writer |-> pr[2], path |-> pr[1],
                                                   ok |-> ok]>>)
                    /\ pc' = [pc EXCEPT ![s] = IF ok THEN "cleanup"
                                                ELSE "exc_unexpected"]
    /\ UNCHANGED <<catalog, profiles, budget, runs, store, song, opts, ctx, dirs,
                   files, stale, trash, fetched, events, db, edits, before,
                   last, tree>>

\* _maybe_write_audio_tags: the subject of the match statement is
\* path_resource[1], the resource; the writer of the matching case runs on
\* the path and may raise, which the except clause catches
_maybe_write_audio_tags(s) ==
    /\ pc[s] = "tags"
    /\ LET pr == path_and_resource(ctx[s].out["audio"])
       IN  IF ~opts[s].audio \/ pr = <<>> \/ pr[2] \notin TagWriters
           THEN UNCHANGED tagged
           ELSE \E ok \in BOOLEAN :
                    tagged' = Log(tagged, s, <<[writer |-> pr[2], path |-> pr[1],
                                                  ok |-> ok]>>)
    /\ pc' = [pc EXCEPT ![s] = "cleanup"]
    /\ UNCHANGED <<catalog, profiles, budget, runs, store, song, opts, ctx, dirs,
                   files, stale, trash, fetched, events, db, edits, before,
                   last, tree>>

(***************************************************************************)
(* File operations.  A commit step threads st = [files, out, trashed,      *)
(* failed] through its loop; failed says that an operation raised.         *)
(***************************************************************************)
\* send2trash.send2trash(path); a missing path is left alone
send2trash(st, path) ==
    IF path \in st.files
    THEN [st EXCEPT !.files = @ \ {path}, !.trashed = Append(@, path)]
    ELSE st

\* Path.rename(target) of a file: replaces the target, raises without the
\* source or the target's directory
rename(st, source, target) ==
    IF source \in st.files /\ target[1] \in dirs
    THEN [st EXCEPT !.files = (@ \ {source}) \cup {target}]
    ELSE [st EXCEPT !.failed = TRUE]

(***************************************************************************)
(* _cleanup_exisiting_resource                                             *)
(***************************************************************************)
\* faulty variant: the file a new one replaces is left to the persist step
CleanupSlotKeepsReplaced(st, k, meta, folder, stem) ==
    LET old == meta.files[k]
        out == st.out[k]
        untracked == file_path(folder, stem, old.fname, <<>>)
        named == file_path(folder, stem, NoName, resource_file_ending(old.fname))
    IN  IF old = NoFile THEN st
        ELSE IF out.old_path = NoPath THEN send2trash(st, untracked)
        ELSE IF out.new_path # NoPath THEN st
        ELSE IF out.old_path # named
             THEN LET r == rename(st, out.old_path, named)
                  IN  IF r.failed THEN r ELSE [r EXCEPT !.out[k].old_path = named]
             ELSE st

\* the body of the loop for the slot of one kind
CleanupSlot(st, k, meta, folder, stem) ==
    LET old == meta.files[k]
        out == st.out[k]
        untracked == file_path(folder, stem, old.fname, <<>>)
        named == file_path(folder, stem, NoName, resource_file_ending(old.fname))
    IN  IF old = NoFile THEN st
        ELSE IF out.old_path = NoPath THEN send2trash(st, untracked)
        ELSE IF out.new_path # NoPath THEN send2trash(st, out.old_path)
        ELSE IF out.old_path # named
             THEN LET r == rename(st, out.old_path, named)
                  IN  IF r.failed THEN r ELSE [r EXCEPT !.out[k].old_path = named]
             ELSE st

\* the first n iterations of the loop, stopping where an operation raised
RECURSIVE CleanupUpTo(_, _, _, _, _)
CleanupUpTo(n, st, meta, folder, stem) ==
    IF n = 0 THEN st
    ELSE LET prev == CleanupUpTo(n - 1, st, meta, folder, stem)
         IN  IF prev.failed THEN prev
             ELSE CleanupSlot(prev, Kinds[n], meta, folder, stem)

StateOf(s) == [files |-> files, out |-> ctx[s].out, trashed |-> <<>>, failed |-> FALSE]

\* the effect of a commit step that ran to st and then completed or raised;
\* the Context is a local of _run_inner and is gone once that has raised
Commit(s, st, completed, next) ==
    /\ trash' = Log(trash, s, st.trashed)
    /\ IF completed
       THEN /\ files' = st.files
            /\ dirs' = dirs
            /\ ctx' = [ctx EXCEPT ![s].out = st.out]
            /\ pc' = [pc EXCEPT ![s] = next]
       ELSE /\ files' = RemoveTempFiles(s, st.files)
            /\ dirs' = RemoveTempDir(s, dirs)
            /\ ctx' = [ctx EXCEPT ![s] = NoCtx]
            /\ pc' = [pc EXCEPT ![s] = "exc_unexpected"]
    /\ stale' = stale \cap st.files

\* faulty variant: the lyrics are written before the folder is renamed
CleanupThenTxt(s) ==
    /\ pc[s] = "cleanup"
    /\ \E n \in 0..Len(Kinds) :
          LET st == CleanupUpTo(n, StateOf(s), ctx[s].song_meta, ctx[s].folder, ctx[s].stem)
          IN  Commit(s, st, n = Len(Kinds) /\ ~st.failed, "txt")
    /\ UNCHANGED <<catalog, profiles, budget, runs, store, song, opts, fetched, events,
                   db, edits, before,
                   last, tagged, tree>>

_cleanup_exisiting_resource(s) ==
    /\ pc[s] = "cleanup"
    /\ \E n \in 0..Len(Kinds) :
          LET st == CleanupUpTo(n, StateOf(s), ctx[s].song_meta, ctx[s].folder, ctx[s].stem)
          IN  Commit(s, st, n = Len(Kinds) /\ ~st.failed, "folder")
    /\ UNCHANGED <<catalog, profiles, budget, runs, store, song, opts, fetched, events,
                   db, edits, before,
                   last, tagged, tree>>

(***************************************************************************)
(* _ensure_correct_folder_name                                             *)
(***************************************************************************)
MoveDir(p, old, new) == IF p[1] = old THEN <<new, p[2]>> ELSE p

\* faulty variant: the folder is created but keeps its name
FolderNeverRenamed(s) ==
    /\ pc[s] = "folder"
    /\ dirs' = dirs \cup {ctx[s].folder}
    /\ pc' = [pc EXCEPT ![s] = "txt"]
    /\ UNCHANGED <<catalog, profiles, budget, runs, store, song, opts, ctx, files, stale,
                   trash, fetched, events, db, edits, before, last, tagged, tree>>

_ensure_correct_folder_name(s) ==
    /\ pc[s] = "folder"
    /\ LET folder == ctx[s].folder
           made == dirs \cup {folder}
           new == next_unique_directory(made, ctx[s].stem)
       IN  IF is_name_maybe_with_suffix(folder, ctx[s].stem)
           THEN /\ dirs' = made
                /\ UNCHANGED <<files, stale, ctx>>
           ELSE /\ dirs' = (made \ {folder}) \cup {new}
                /\ files' = {MoveDir(p, folder, new) : p \in files}
                /\ stale' = {MoveDir(p, folder, new) : p \in stale}
                /\ ctx' = [ctx EXCEPT ![s].folder = new]
    /\ pc' = [pc EXCEPT ![s] = "txt"]
    /\ UNCHANGED <<catalog, profiles, budget, runs, store, song, opts, trash, fetched,
                   events, db, edits, before,
                   last, tagged, tree>>

(***************************************************************************)
(* _maybe_write_txt, with _write_headers                                   *)
(***************************************************************************)
_write_headers(c) ==
    [k \in SeededKinds |->
        IF TempPath(c.out[k]) # NoPath THEN TempPath(c.out[k])[2] ELSE c.headers[k]]

_maybe_write_txt(s) ==
    /\ pc[s] = "txt"
    /\ IF ~opts[s].txt THEN UNCHANGED <<ctx, files>>
       ELSE LET path == temp_path(s, ctx[s].stem, NoName, <<"txt">>)
            IN  /\ ctx' = [ctx EXCEPT ![s].headers = _write_headers(ctx[s]),
                                      ![s].out["txt"].new_path = path,
                                      ![s].out["txt"].resource = usdb_url(s)]
                /\ files' = files \cup {path}
    /\ pc' = [pc EXCEPT ![s] = "persist"]
    /\ UNCHANGED <<catalog, profiles, budget, runs, store, song, opts, dirs, stale,
                   trash, fetched, events, db, edits, before,
                   last, tagged, tree>>

(***************************************************************************)
(* _persist_tempfiles                                                      *)
(***************************************************************************)
\* faulty variant: the move replaces a file at the target
PersistSlotOverwrites(st, k, folder, stem) ==
    LET temp_file == st.out[k]
        target == file_path(folder, stem, temp_file.new_path[2], <<>>)
    IN  IF temp_file.new_path = NoPath THEN st
        ELSE LET r == rename(st, temp_file.new_path, target)
             IN  IF r.failed THEN r ELSE [r EXCEPT !.out[k].new_path = target]

PersistSlot(st, k, folder, stem) ==
    LET temp_file == st.out[k]
        target == file_path(folder, stem, temp_file.new_path[2], <<>>)
    IN  IF temp_file.new_path = NoPath THEN st
        ELSE LET r == rename(send2trash(st, target), temp_file.new_path, target)
             IN  IF r.failed THEN r ELSE [r EXCEPT !.out[k].new_path = target]

RECURSIVE PersistUpTo(_, _, _, _)
PersistUpTo(n, st, folder, stem) ==
    IF n = 0 THEN st
    ELSE LET prev == PersistUpTo(n - 1, st, folder, stem)
         IN  IF prev.failed THEN prev
             ELSE PersistSlot(prev, Kinds[n], folder, stem)

_persist_tempfiles(s) ==
    /\ pc[s] = "persist"
    /\ \E n \in 0..Len(Kinds) :
          LET st == PersistUpTo(n, StateOf(s), ctx[s].folder, ctx[s].stem)
          IN  Commit(s, st, n = Len(Kinds) /\ ~st.failed, "exit_tmp")
    /\ UNCHANGED <<catalog, profiles, budget, runs, store, song, opts, fetched, events,
                   db, edits, before,
                   last, tagged, tree>>

\* the with-block of tempfile.TemporaryDirectory ends
ExitTempDir(s) ==
    /\ pc[s] = "exit_tmp"
    /\ dirs' = RemoveTempDir(s, dirs)
    /\ files' = RemoveTempFiles(s, files)
    /\ pc' = [pc EXCEPT ![s] = "sync_meta"]
    /\ UNCHANGED <<catalog, profiles, budget, runs, store, song, opts, ctx, stale,
                   trash, fetched, events, db, edits, before,
                   last, tagged, tree>>

(***************************************************************************)
(* _write_sync_meta                                                        *)
(***************************************************************************)
\* faulty variant: every run mints an id and starts unpinned
NewSyncMetaFresh(s, c) ==
    [id |-> SyncMetaId_new(s, runs[s]),
     folder |-> c.folder,
     pinned |-> FALSE,
     files |-> [k \in KindSet |-> to_resource_file(c.out[k])]]

\* the SyncMeta built from the Context
NewSyncMeta(s, c) ==
    LET old == c.song_meta
        sync_meta_id == IF old # NoMeta THEN old.id ELSE SyncMetaId_new(s, runs[s])
    IN  [id |-> sync_meta_id,
         folder |-> c.folder,
         pinned |-> IF old # NoMeta THEN old.pinned ELSE FALSE,
         files |-> [k \in KindSet |-> to_resource_file(c.out[k])]]

\* faulty variant: the record is also assigned to the song the loader was
\* created with, not only to the copy
WriteSyncMetaToCaller(s) ==
    /\ pc[s] = "sync_meta"
    /\ LET meta == NewSyncMeta(s, ctx[s])
       IN  /\ ctx' = [ctx EXCEPT ![s].song_meta = meta]
           /\ song' = [song EXCEPT ![s].sync_meta = meta]
           /\ files' = files \cup {<<meta.folder, to_filename(meta.id)>>}
           /\ pc' = [pc EXCEPT ![s] = "upsert"]
    /\ UNCHANGED <<catalog, profiles, budget, runs, store, opts, dirs, stale,
                   trash, fetched, events, db, edits, before, last, tagged, tree>>

\* the record is built and written to its file in the folder
_write_sync_meta(s) ==
    /\ pc[s] = "sync_meta"
    /\ LET meta == NewSyncMeta(s, ctx[s])
       IN  IF meta.folder \in dirs
           THEN /\ ctx' = [ctx EXCEPT ![s].song_meta = meta]
                /\ files' = files \cup {<<meta.folder, to_filename(meta.id)>>}
                /\ pc' = [pc EXCEPT ![s] = "upsert"]
           ELSE /\ ctx' = [ctx EXCEPT ![s] = NoCtx]
                /\ pc' = [pc EXCEPT ![s] = "exc_unexpected"]
                /\ UNCHANGED files
    /\ UNCHANGED <<catalog, profiles, budget, runs, store, song, opts, dirs, stale,
                   trash, fetched, events, db, edits, before,
                   last, tagged, tree>>

(***************************************************************************)
(* SongLoader.run: the handlers and the final events.                      *)
(***************************************************************************)
\* the song _run_inner returns: the deep copy with the data of this run
UpdatedSong(c) ==
    [sync_meta |-> c.song_meta, status |-> "NONE", artist_title |-> c.artist_title]

\* faulty variant: the record and the song fields go to the store in two
\* transactions
RunElseTwoWrites(s) ==
    /\ pc[s] = "upsert"
    /\ db' = [db EXCEPT ![s].transactions = @ + 2, ![s].upserts = @ + 2]
    /\ store' = [store EXCEPT ![s] = [present |-> TRUE, song |-> UpdatedSong(ctx[s])]]
    /\ events' = Log(events, s, <<"SongChanged", "DownloadFinished">>)
    /\ last' = [last EXCEPT ![s] = [valid |-> TRUE, md |-> ctx[s].md, opts |-> opts[s]]]
    /\ pc' = [pc EXCEPT ![s] = "done"]
    /\ UNCHANGED <<catalog, profiles, budget, runs, song, opts, ctx, dirs, files,
                   stale, trash, fetched, edits, before, tagged, tree>>

\* else: status NONE, upsert in a transaction, then the two events;
\* an exception of the store leaves run
RunElse(s) ==
    /\ pc[s] = "upsert"
    /\ db' = [db EXCEPT ![s].transactions = @ + 1, ![s].upserts = @ + 1]
    /\ \/ /\ store' = [store EXCEPT ![s] = [present |-> TRUE, song |-> UpdatedSong(ctx[s])]]
          /\ events' = Log(events, s, <<"SongChanged", "DownloadFinished">>)
          /\ last' = [last EXCEPT ![s] = [valid |-> TRUE, md |-> ctx[s].md, opts |-> opts[s]]]
          /\ pc' = [pc EXCEPT ![s] = "done"]
       \/ /\ pc' = [pc EXCEPT ![s] = "escaped"]
          /\ UNCHANGED <<store, events, last>>
    /\ UNCHANGED <<catalog, profiles, budget, runs, song, opts, ctx, dirs, files,
                   stale, trash, fetched, edits, before, tagged, tree>>

\* faulty variant: the handler also writes the song to the store
HandleLoginErrorUpserts(s) ==
    /\ pc[s] = "exc_login"
    /\ song' = [song EXCEPT ![s].status = "FAILED"]
    /\ db' = [db EXCEPT ![s].transactions = @ + 1, ![s].upserts = @ + 1]
    /\ events' = Log(events, s, <<"SongChanged", "DownloadFinished">>)
    /\ pc' = [pc EXCEPT ![s] = "aborted"]
    /\ UNCHANGED <<catalog, profiles, budget, runs, store, opts, ctx, dirs, files,
                   stale, trash, fetched, edits, before, last, tagged, tree>>

\* except errors.UsdbLoginError
HandleLoginError(s) ==
    /\ pc[s] = "exc_login"
    /\ song' = [song EXCEPT ![s].status = "FAILED"]
    /\ events' = Log(events, s, <<"SongChanged", "DownloadFinished">>)
    /\ pc' = [pc EXCEPT ![s] = "aborted"]
    /\ UNCHANGED <<catalog, profiles, budget, runs, store, opts, ctx, dirs, files,
                   stale, trash, fetched, db, edits, before,
                   last, tagged, tree>>

\* faulty variant: the handler posts SongDeleted without deleting the song
HandleNotFoundErrorNoDelete(s) ==
    /\ pc[s] = "exc_not_found"
    /\ events' = Log(events, s, <<"SongDeleted", "DownloadFinished">>)
    /\ pc' = [pc EXCEPT ![s] = "deleted"]
    /\ UNCHANGED <<catalog, profiles, budget, runs, store, song, opts, ctx, dirs, files,
                   stale, trash, fetched, db, edits, before, last, tagged, tree>>

\* except errors.UsdbNotFoundError: delete in a transaction, SongDeleted
HandleNotFoundError(s) ==
    /\ pc[s] = "exc_not_found"
    /\ db' = [db EXCEPT ![s].transactions = @ + 1, ![s].deletes = @ + 1]
    /\ \/ /\ store' = [store EXCEPT ![s].present = FALSE]
          /\ events' = Log(events, s, <<"SongDeleted", "DownloadFinished">>)
          /\ pc' = [pc EXCEPT ![s] = "deleted"]
       \/ /\ pc' = [pc EXCEPT ![s] = "escaped"]
          /\ UNCHANGED <<store, events>>
    /\ UNCHANGED <<catalog, profiles, budget, runs, song, opts, ctx, dirs, files,
                   stale, trash, fetched, edits, before,
                   last, tagged, tree>>

\* except Exception
HandleException(s) ==
    /\ pc[s] = "exc_unexpected"
    /\ song' = [song EXCEPT ![s].status = "FAILED"]
    /\ events' = Log(events, s, <<"SongChanged", "DownloadFinished">>)
    /\ pc' = [pc EXCEPT ![s] = "failed"]
    /\ UNCHANGED <<catalog, profiles, budget, runs, store, opts, ctx, dirs, files,
                   stale, trash, fetched, db, edits, before,
                   last, tagged, tree>>

(***************************************************************************)
(* The user, between runs: a recorded file is deleted or changed, a file   *)
(* is added, or the song is pinned.                                        *)
(***************************************************************************)
Recorded(s) ==
    LET meta == store[s].song.sync_meta
    IN  {<<meta.folder, meta.files[k].fname>> : k \in {k \in KindSet : meta.files[k] # NoFile}}

UserDeletesFile(s) ==
    /\ pc[s] = "done"
    /\ edits < MaxUserEdits
    /\ \E p \in Recorded(s) \cap files :
          /\ files' = files \ {p}
          /\ stale' = stale \ {p}
    /\ edits' = edits + 1
    /\ last' = [last EXCEPT ![s] = NoLast]
    /\ pc' = [pc EXCEPT ![s] = "idle"]
    /\ UNCHANGED <<catalog, profiles, budget, runs, store, song, opts, ctx, dirs,
                   trash, fetched, events, db, before, tagged, tree>>

UserChangesFile(s) ==
    /\ pc[s] = "done"
    /\ edits < MaxUserEdits
    /\ \E p \in (Recorded(s) \cap files) \ stale : stale' = stale \cup {p}
    /\ edits' = edits + 1
    /\ last' = [last EXCEPT ![s] = NoLast]
    /\ pc' = [pc EXCEPT ![s] = "idle"]
    /\ UNCHANGED <<catalog, profiles, budget, runs, store, song, opts, ctx, dirs,
                   files, trash, fetched, events, db, before, tagged, tree>>

\* names of files the user may put into a song's folder
ForeignNames == {<<"X - Y", ".", "mp4">>}

\* the user puts a file the record does not know into the song's folder:
\* the file _persist_tempfiles may find at its target
UserAddsFile(s) ==
    /\ pc[s] = "done"
    /\ edits < MaxUserEdits
    /\ \E name \in ForeignNames :
          LET p == <<store[s].song.sync_meta.folder, name>>
          IN  /\ p \notin files
              /\ files' = files \cup {p}
    /\ edits' = edits + 1
    /\ last' = [last EXCEPT ![s] = NoLast]
    /\ pc' = [pc EXCEPT ![s] = "idle"]
    /\ UNCHANGED <<catalog, profiles, budget, runs, store, song, opts, ctx, dirs,
                   stale, trash, fetched, events, db, before, tagged, tree>>

\* the user pins or unpins the song: the flag of its record is toggled
UserPinsSong(s) ==
    /\ pc[s] = "done"
    /\ edits < MaxUserEdits
    /\ store' = [store EXCEPT ![s].song.sync_meta.pinned = ~@]
    /\ edits' = edits + 1
    /\ pc' = [pc EXCEPT ![s] = "idle"]
    /\ UNCHANGED <<catalog, profiles, budget, runs, song, opts, ctx, dirs, files, stale,
                   trash, fetched, events, db, before, last, tagged, tree>>

(***************************************************************************)
(* Specification.                                                          *)
(***************************************************************************)
Next ==
    \E s \in Songs :
        \/ download_songs(s)
        \/ RunStart(s)
        \/ ContextNew(s)
        \/ MetadataFails(s)
        \/ RaiseUnexpected(s)
        \/ _maybe_download_audio(s)
        \/ _maybe_download_video(s)
        \/ _maybe_download_cover(s)
        \/ _maybe_download_background(s)
        \/ _maybe_write_audio_tags(s)
        \/ _cleanup_exisiting_resource(s)
        \/ _ensure_correct_folder_name(s)
        \/ _maybe_write_txt(s)
        \/ _persist_tempfiles(s)
        \/ ExitTempDir(s)
        \/ _write_sync_meta(s)
        \/ RunElse(s)
        \/ HandleLoginError(s)
        \/ HandleNotFoundError(s)
        \/ HandleException(s)
        \/ UserDeletesFile(s)
        \/ UserChangesFile(s)
        \/ UserAddsFile(s)
        \/ UserPinsSong(s)

Spec == Init /\ [][Next]_vars

\* two songs of an empty library, handed to the thread pool together;
\* USDB serves either stem for both
PoolMetadata == {md \in AudioVideoMetadata : md.audio = "urlA" /\ md.video = ""}

InitPool ==
    /\ InitCommon
    /\ dirs = {}
    /\ catalog = PoolMetadata
    /\ profiles = {AllOptions}
    /\ budget = [s \in Songs |-> 1]

SpecPool == InitPool /\ [][Next]_vars

\* a step of the run of song s, taken by the worker thread that executes
\* SongLoader.run
RunStep(s) ==
    \/ RunStart(s)
    \/ ContextNew(s)
    \/ MetadataFails(s)
    \/ RaiseUnexpected(s)
    \/ _maybe_download_audio(s)
    \/ _maybe_download_video(s)
    \/ _maybe_download_cover(s)
    \/ _maybe_download_background(s)
    \/ _maybe_write_audio_tags(s)
    \/ _cleanup_exisiting_resource(s)
    \/ _ensure_correct_folder_name(s)
    \/ _maybe_write_txt(s)
    \/ _persist_tempfiles(s)
    \/ ExitTempDir(s)
    \/ _write_sync_meta(s)
    \/ RunElse(s)
    \/ HandleLoginError(s)
    \/ HandleNotFoundError(s)
    \/ HandleException(s)

\* the thread pool runs every loader it was handed, and every call of a
\* collaborator returns or raises: a run that can take a step takes one
SpecLive == Init /\ [][Next]_vars /\ \A s \in Songs : WF_vars(RunStep(s))

(***************************************************************************)
(* The filter tree: one FilterItem with its VariantItems                   *)
(* (gui/search_tree/item.py).                                              *)
(***************************************************************************)
\* the FilterItem itself in a list of toggled items; a variant is its row
Self == -1

\* the rows of a set as a list, in the order the set is iterated
RECURSIVE RowList(_)
RowList(rows) ==
    IF rows = {} THEN <<>>
    ELSE LET least == CHOOSE r \in rows : \A q \in rows : r <= q
         IN  <<least>> \o RowList(rows \ {least})

\* FilterItem.uncheck_children: its return value
Unchecked == RowList(checked_children) \o <<Self>>

\* faulty variant: the siblings leave checked_children but stay checked
set_child_checked_flags_kept(child, checked, keep_siblings) ==
    LET clear == checked /\ ~keep_siblings
        rest == IF clear THEN {} ELSE checked_children
        now == IF checked THEN rest \cup {child} ELSE checked_children \ {child}
    IN  /\ checked_children' = now
        /\ child_checked' = [child_checked EXCEPT ![child] = checked]
        /\ filter_checked' = (now # {})
        /\ filter_checkable' = (now # {})
        /\ toggled' = <<Self, child>> \o (IF clear THEN Unchecked ELSE <<>>)

\* FilterItem.set_child_checked
set_child_checked(child, checked, keep_siblings) ==
    LET clear == checked /\ ~keep_siblings
        rest == IF clear THEN {} ELSE checked_children
        now == IF checked THEN rest \cup {child} ELSE checked_children \ {child}
    IN  /\ checked_children' = now
        /\ child_checked' =
               [row \in Rows |->
                   IF row = child THEN checked
                   ELSE IF clear /\ row \in checked_children THEN FALSE
                   ELSE child_checked[row]]
        /\ filter_checked' = (now # {})
        /\ filter_checkable' = (now # {})
        /\ toggled' = <<Self, child>> \o (IF clear THEN Unchecked ELSE <<>>)

\* VariantItem.toggle_checked
VariantToggle ==
    \E row \in Rows : \E keep_siblings \in BOOLEAN :
        /\ set_child_checked(row, ~child_checked[row], keep_siblings)
        /\ UNCHANGED loader

\* FilterItem.toggle_checked
FilterToggle ==
    /\ IF filter_checked
       THEN /\ child_checked' =
                   [row \in Rows |->
                       IF row \in checked_children THEN FALSE ELSE child_checked[row]]
            /\ checked_children' = {}
            /\ filter_checked' = FALSE
            /\ filter_checkable' = FALSE
            /\ toggled' = Unchecked
       ELSE /\ toggled' = <<>>
            /\ UNCHANGED <<child_checked, checked_children, filter_checked,
                           filter_checkable>>
    /\ UNCHANGED loader

NextTree == VariantToggle \/ FilterToggle

SpecTree == Init /\ [][NextTree]_vars


(***************************************************************************)
(* Properties.                                                             *)
(***************************************************************************)
\* the record the run started from, and the record in the library
Prior(s) == song[s].sync_meta
Committed(s) == store[s].song.sync_meta

Count(seq, x) == Cardinality({i \in 1..Len(seq) : seq[i] = x})
OnDisk(p) == p \in files
InLibrary(p) == p[1][1] # "tmp"

\* the candidates the download stage of a kind walks
Candidates(k, md) ==
    LET all == CASE k = "audio" -> all_audio_resources(md)
                 [] k = "video" -> all_video_resources(md)
                 [] k = "cover" -> Opt(cover_url(md))
                 [] k = "background" -> Opt(background_url(md))
    IN  SubSeq(all, 1, IF Len(all) < MaxCandidates THEN Len(all) ELSE MaxCandidates)

\* the stage of the kind runs under the options and the metadata
Enabled(k, o, md) ==
    CASE k = "audio" -> o.audio
      [] k = "video" -> o.video /\ ~md.audio_only
      [] k = "cover" -> o.cover
      [] k = "background" -> download_background(o, md.video # NoResource)

\* every candidate of the kind fails to download, or there is none
AllFail(k, md) ==
    \A i \in 1..Len(Candidates(k, md)) : Candidates(k, md)[i] \in Broken

\* the name a downloaded file of the kind has in the song folder
CanonicalName(k, stem, o) ==
    CASE k = "txt" -> <<stem, ".", "txt">>
      [] k = "audio" -> <<stem, ".">> \o o.audio_ext
      [] k = "video" -> <<stem, ".">> \o o.video_ext
      [] k = "cover" -> <<stem, " [CO]", ".", "jpg">>
      [] k = "background" -> <<stem, " [BG]", ".", "jpg">>

\* C1: Idempotence.  A run that follows a successful run, with the same
\* metadata and options and with the files as that run left them, makes no
\* fetcher call and commits, in every slot, the resource and the filename
\* the first run committed.
C1_Idempotence ==
    \A s \in Songs :
        (pc[s] = "done" /\ ctx[s].rerun) =>
            /\ fetched[s] = <<>>
            /\ \A k \in KindSet : Committed(s).files[k] = Prior(s).files[k]

\* the slot was seeded from the prior record and a new file was staged
Replaced(s, k) ==
    /\ ctx[s].out[k].old_path # NoPath
    /\ ctx[s].out[k].new_path # NoPath

\* the first candidate whose download succeeds
FirstWorking(cands) ==
    cands[CHOOSE i \in 1..Len(cands) :
            /\ cands[i] \in Working
            /\ \A j \in 1..(i - 1) : cands[j] \notin Working]

\* C2: Replace-on-change.  In a successful run, a slot seeded from the prior
\* record for which a different candidate was staged has its old file sent
\* to the trash exactly once, the new file is in the final folder under the
\* canonical name, and the committed resource is the new candidate: the
\* first one whose fetch succeeds, which is not the prior resource.
C2_ReplaceOnChange ==
    \A s \in Songs : \A k \in SeededKinds :
        (pc[s] = "done" /\ Replaced(s, k)) =>
            /\ Count(trash[s], <<Prior(s).folder, Prior(s).files[k].fname>>) = 1
            /\ Committed(s).files[k].fname = CanonicalName(k, ctx[s].md.stem, opts[s])
            /\ OnDisk(<<Committed(s).folder, Committed(s).files[k].fname>>)
            /\ Committed(s).files[k].resource # Prior(s).files[k].resource
            /\ Committed(s).files[k].resource = FirstWorking(Candidates(k, ctx[s].md))

\* the scenario of the specification: prior "urlA", candidates
\* <<"urlB", "urlA">>, the fetch of "urlB" succeeds
C2_Witness ==
    \E s \in Songs :
        /\ pc[s] = "done"
        /\ Replaced(s, "audio")
        /\ Prior(s).files["audio"].resource = "urlA"
        /\ Candidates("audio", ctx[s].md) = <<"urlB", "urlA">>
        /\ Committed(s).files["audio"].resource = "urlB"

\* the slot commits the resource of the prior record, with its file on disk
\* and never sent to the trash
KeptAsBefore(s, k) ==
    /\ Committed(s).files[k].resource = Prior(s).files[k].resource
    /\ OnDisk(<<Committed(s).folder, Committed(s).files[k].fname>>)
    /\ Count(trash[s], <<Prior(s).folder, Prior(s).files[k].fname>>) = 0

\* C3 as stated: Keep-on-failure.  If the prior record holds a resource for
\* a media slot and every candidate fetch of the run fails (or there is no
\* candidate), then after a successful run the slot commits the same
\* resource, and its file is on disk and was not trashed.
C3_KeepOnFailure ==
    \A s \in Songs : \A k \in SeededKinds :
        ( /\ pc[s] = "done"
          /\ Prior(s).files[k] # NoFile
          /\ Enabled(k, opts[s], ctx[s].md)
          /\ AllFail(k, ctx[s].md) ) => KeptAsBefore(s, k)

\* C3 as amended: the same, for a slot whose recorded file was still in sync
\* with the folder when the run started (the slot was seeded from it).
C3_KeepOnFailureInSync ==
    \A s \in Songs : \A k \in SeededKinds :
        ( /\ pc[s] = "done"
          /\ Prior(s).files[k] # NoFile
          /\ ctx[s].out[k].old_path # NoPath
          /\ Enabled(k, opts[s], ctx[s].md)
          /\ AllFail(k, ctx[s].md) ) => KeptAsBefore(s, k)

C3_Witness ==
    \E s \in Songs :
        /\ pc[s] = "done"
        /\ Prior(s).files["audio"].resource = "urlA"
        /\ ctx[s].out["audio"].old_path # NoPath
        /\ Enabled("audio", opts[s], ctx[s].md)
        /\ Candidates("audio", ctx[s].md) = <<"urlX", "urlX">>
        /\ fetched[s] = <<<<"audio", "urlX">>, <<"audio", "urlX">>>>
        /\ KeptAsBefore(s, "audio")

\* C4: After a run that ended Failed, every file the song's record in the
\* library names, and that was there when the run started, is still in its
\* folder, and every file the run added to the library is named by that
\* record.
C4_ValidAfterFailure ==
    \A s \in Songs :
        pc[s] = "failed" =>
            /\ \A p \in Recorded(s) \cap before[s].files : OnDisk(p)
            /\ \A p \in files \ before[s].files : InLibrary(p) => p \in Recorded(s)

\* the metadata fetch of the run raised UsdbNotFoundError
NotFound(s) ==
    \/ pc[s] \in {"exc_not_found", "deleted"}
    \/ pc[s] = "escaped" /\ db[s].deletes > 0

\* C5: Deletion short-circuit.  Once the metadata fetch has reported that
\* the song no longer exists, the run has made no fetcher call and has
\* created, renamed and trashed nothing in the library; its handler issues
\* one delete in one transaction and no upsert, and when the run ends
\* Deleted the song is gone from the store.
C5_DeletionShortCircuit ==
    \A s \in Songs :
        NotFound(s) =>
            /\ {p \in files : InLibrary(p)} = before[s].files
            /\ {d \in dirs : d[1] # "tmp"} = before[s].dirs
            /\ trash[s] = <<>>
            /\ fetched[s] = <<>>
            /\ pc[s] # "exc_not_found" =>
                 db[s] = [transactions |-> 1, upserts |-> 0, deletes |-> 1]
            /\ pc[s] = "deleted" => ~store[s].present

\* a downloaded song, with its folder and files, is found deleted on USDB
C5_Witness ==
    \E s \in Songs :
        /\ pc[s] = "deleted"
        /\ Prior(s).files["audio"] # NoFile
        /\ OnDisk(<<Prior(s).folder, Prior(s).files["audio"].fname>>)

\* C6: When a run has ended, whatever its outcome, the last two events it
\* posted are SongChanged and then DownloadFinished, and it has posted
\* DownloadFinished exactly once.
C6_TerminalEvents ==
    \A s \in Songs :
        pc[s] \in Terminal =>
            /\ Len(events[s]) >= 2
            /\ events[s][Len(events[s])] = "DownloadFinished"
            /\ events[s][Len(events[s]) - 1] = "SongChanged"
            /\ Count(events[s], "DownloadFinished") = 1

\* C7: No exception escapes SongLoader.run.
C7_NoEscape == \A s \in Songs : pc[s] # "escaped"

\* the name is the stem, or the stem and a uniqueness suffix
StemMaybeSuffixed(name, stem) ==
    \/ name = <<stem>>
    \/ \E i \in 1..Len(SuffixTokens) : name = <<stem, SuffixTokens[i]>>

\* C8: Folder invariant.  After a successful run the song's folder (the
\* parent of the record's path) exists on disk and is named by the stem of
\* the current headers, optionally followed by a uniqueness suffix.
C8_FolderInvariant ==
    \A s \in Songs :
        pc[s] = "done" =>
            /\ Committed(s).folder \in dirs
            /\ StemMaybeSuffixed(Committed(s).folder, ctx[s].md.stem)
            /\ OnDisk(<<Committed(s).folder, to_filename(Committed(s).id)>>)

\* the title changed and the new name was taken: the folder of the prior
\* record was renamed to the stem with a suffix
C8_Witness ==
    \E s \in Songs :
        /\ pc[s] = "done"
        /\ Prior(s).folder = <<"X - Y">>
        /\ ctx[s].md.stem = "X - Z"
        /\ Committed(s).folder = <<"X - Z", " (1)">>
        /\ <<"X - Y">> \notin dirs

\* C9: No two songs share a folder: the folders two successful runs of
\* different songs committed into are distinct.
C9_DistinctFolders ==
    \A s \in Songs : \A u \in Songs :
        (s # u /\ pc[s] = "done" /\ pc[u] = "done") =>
            Committed(s).folder # Committed(u).folder

\* C10: The temporary directory of a run exists from the start of the run
\* to the end of the with-block, and neither it nor a file in it exists
\* once the block was left, on any path.
C10_TempDirScoped ==
    \A s \in Songs :
        /\ pc[s] \in InWithBlock => TempDir(s) \in dirs
        /\ pc[s] \notin InWithBlock =>
             /\ TempDir(s) \notin dirs
             /\ \A p \in files : p[1] # TempDir(s)

\* a run that had downloaded into the temporary directory and then failed
C10_Witness ==
    \E s \in Songs :
        /\ pc[s] = "failed"
        /\ fetched[s] # <<>>
        /\ TempDir(s) \notin dirs

\* the metadata fetch of the run raised UsdbLoginError
LoginRequired(s) == pc[s] \in {"exc_login", "aborted"}

\* C11: Authentication failure.  Once the metadata fetch has failed with
\* UsdbLoginError, the run has made no fetcher call, has created, renamed
\* and trashed nothing in the library, and has opened no store transaction
\* and left the store's song as it was; it ends with status FAILED.
C11_LoginRequired ==
    \A s \in Songs :
        LoginRequired(s) =>
            /\ {p \in files : InLibrary(p)} = before[s].files
            /\ {d \in dirs : d[1] # "tmp"} = before[s].dirs
            /\ trash[s] = <<>>
            /\ fetched[s] = <<>>
            /\ db[s] = NoDb
            /\ store[s].present
            /\ store[s].song.sync_meta = Prior(s)
            /\ pc[s] = "aborted" => song[s].status = "FAILED"

\* a downloaded song, with its folder and files, now requires a login
C11_Witness ==
    \E s \in Songs :
        /\ pc[s] = "aborted"
        /\ Prior(s).files["audio"] # NoFile
        /\ OnDisk(<<Prior(s).folder, Prior(s).files["audio"].fname>>)
        /\ song[s].status = "FAILED"

\* positions of a run between RunStart and its handler or else clause
Running ==
    InWithBlock \cup {"sync_meta", "upsert", "exc_login", "exc_not_found", "exc_unexpected"}

\* C12: Status state machine.  The song handed to the loader is DOWNLOADING
\* from the start of the run until it ends, FAILED after a run that ended
\* Failed, and after a successful run both the song in the store and the
\* song handed to the loader have status NONE (Done), not DOWNLOADING.
C12_StatusMachine ==
    \A s \in Songs :
        /\ pc[s] \in Running => song[s].status = "DOWNLOADING"
        /\ pc[s] \in {"aborted", "failed"} => song[s].status = "FAILED"
        /\ pc[s] = "done" =>
             /\ store[s].song.status = "NONE"
             /\ song[s].status = "NONE"

\* the store holds the song as it was when the run was submitted
StoreUntouched(s) ==
    /\ store[s].present
    /\ store[s].song.sync_meta = Prior(s)
    /\ store[s].song.artist_title = song[s].artist_title

\* C13: A run opens at most one store transaction, with one write in it.
\* Until the final commit, and after a run that ended Failed, it has opened
\* none and the store holds the song as before the run; a successful run
\* has made exactly one upsert, after which the store holds the new record
\* (folder, id, the five slots) together with the updated song fields; a
\* Deleted run has made exactly one delete.
C13_SingleTransaction ==
    \A s \in Songs :
        /\ db[s].transactions <= 1
        /\ db[s].upserts + db[s].deletes = db[s].transactions
        /\ pc[s] \in {"queued", "aborted", "failed"} \cup (Running \ {"exc_not_found"}) =>
             /\ db[s] = NoDb
             /\ StoreUntouched(s)
        /\ pc[s] = "escaped" => StoreUntouched(s)
        /\ pc[s] = "deleted" => db[s] = [transactions |-> 1, upserts |-> 0, deletes |-> 1]
        /\ pc[s] = "done" =>
             /\ db[s] = [transactions |-> 1, upserts |-> 1, deletes |-> 0]
             /\ Committed(s).folder = ctx[s].folder
             /\ Committed(s).id = ctx[s].song_meta.id
             /\ \A k \in KindSet : Committed(s).files[k] = to_resource_file(ctx[s].out[k])
             /\ store[s].song.artist_title = ctx[s].md.stem
             /\ store[s].song.status = "NONE"

\* a run that changed the title and the audio of a downloaded song
C13_Witness ==
    \E s \in Songs :
        /\ pc[s] = "done"
        /\ db[s] = [transactions |-> 1, upserts |-> 1, deletes |-> 0]
        /\ Prior(s) # NoMeta
        /\ song[s].artist_title = "X - Y"
        /\ store[s].song.artist_title = "X - Z"
        /\ Committed(s).files["audio"].resource # Prior(s).files["audio"].resource

\* the files a run has staged in its temporary directory
StagedFiles(s, fs) == {p \in fs : p[1] = TempDir(s)}

\* C14: Run isolation.  From submission to the end of a run, no step
\* changes the record or the song fields of the song object handed to the
\* loader (only its status changes); and a step of another run changes
\* neither the run's Context (its copy of the song, staged bundle and
\* locations), nor its song object, options or staged files.
C14_RunIsolation ==
    [][\A s \in Songs :
          /\ pc[s] \in Running \cup {"queued"} =>
                /\ song'[s].sync_meta = song[s].sync_meta
                /\ song'[s].artist_title = song[s].artist_title
          /\ pc'[s] = pc[s] =>
                /\ ctx'[s] = ctx[s]
                /\ song'[s] = song[s]
                /\ opts'[s] = opts[s]
                /\ StagedFiles(s, files') = StagedFiles(s, files)]_vars

\* two runs in progress, each with a staged audio file and a copy that
\* differs from the song it was made from
C14_Witness ==
    /\ \A s \in Songs :
          /\ pc[s] \in {"cleanup", "folder", "txt", "persist"}
          /\ ctx[s].out["audio"].new_path \in StagedFiles(s, files)
          /\ ctx[s].song_meta # song[s].sync_meta
          /\ ctx[s].artist_title # song[s].artist_title
    /\ ctx[1].out["audio"].new_path # ctx[2].out["audio"].new_path

\* the most fetcher calls a run can make: the capped walks of audio and
\* video, one cover and one background
MaxFetches == 2 * MaxCandidates + 2

\* C15: Termination.  A run that was submitted eventually ends Done, Failed
\* or Deleted, and it never makes more than MaxFetches fetcher calls.
C15_Termination ==
    /\ \A s \in Songs :
          (pc[s] = "queued") ~> (pc[s] \in {"done", "aborted", "failed", "deleted"})
    /\ [](\A s \in Songs : Len(fetched[s]) <= MaxFetches)

\* C16: Stable id and pinned flag.  A successful run of a song that has a
\* record commits that record's id and its pinned flag; a successful run
\* of a song without a record commits the id minted for this run, unpinned.
C16_StableIdPinned ==
    \A s \in Songs :
        pc[s] = "done" =>
            IF Prior(s) # NoMeta
            THEN /\ Committed(s).id = Prior(s).id
                 /\ Committed(s).pinned = Prior(s).pinned
            ELSE /\ Committed(s).id = SyncMetaId_new(s, runs[s])
                 /\ Committed(s).pinned = FALSE

\* the second successful run of a song that was pinned in between, with
\* new audio: the id of the first run and the pin are committed again
C16_Witness ==
    \E s \in Songs :
        /\ pc[s] = "done"
        /\ runs[s] = 2
        /\ Prior(s).pinned
        /\ Committed(s).pinned
        /\ Committed(s).id = SyncMetaId_new(s, 1)
        /\ Committed(s).files["audio"].resource # Prior(s).files["audio"].resource

\* the successful run renamed the folder of the prior record
FolderRenamed(s) ==
    /\ pc[s] = "done"
    /\ Prior(s) # NoMeta
    /\ Committed(s).folder # Prior(s).folder

\* C17: Paths after a folder rename.  After a successful run that renamed
\* the folder, the old folder is gone, the record file is in the renamed
\* folder, and in every slot the path the committed ResourceFile was built
\* from (the staged file, else the kept one) is a file in the renamed
\* folder.
C17_RenamePaths ==
    \A s \in Songs :
        FolderRenamed(s) =>
            /\ Prior(s).folder \notin dirs
            /\ OnDisk(<<Committed(s).folder, to_filename(Committed(s).id)>>)
            /\ \A k \in KindSet :
                  Committed(s).files[k] # NoFile =>
                      /\ TempPath(ctx[s].out[k])[1] = Committed(s).folder
                      /\ OnDisk(TempPath(ctx[s].out[k]))

AfterStages ==
    {"tags", "cleanup", "folder", "txt", "persist", "exit_tmp", "sync_meta",
     "upsert", "done"}

\* the run of the song is past the download stage of the kind
PassedStage(s, k) ==
    /\ ctx[s] # NoCtx
    /\ pc[s] \in AfterStages \cup
                 (CASE k = "audio" -> {"video", "cover", "background"}
                    [] k = "video" -> {"cover", "background"}
                    [] k = "cover" -> {"background"}
                    [] k = "background" -> {})

\* the slot of the kind was seeded from the prior record
Seeded(s, k) ==
    /\ ctx[s] # NoCtx
    /\ Prior(s) # NoMeta
    /\ Prior(s).files[k] # NoFile
    /\ ctx[s].out[k].old_path # NoPath

\* the resources passed to the fetcher of the kind in this run, in order
KindFetches(s, k) ==
    LET calls == SelectSeq(fetched[s], LAMBDA e : e[1] = k)
    IN  [i \in 1..Len(calls) |-> calls[i][2]]

\* the walk of the kind reaches the seeded resource at candidate i
ReachesSeedAt(s, k, i) ==
    LET cands == Candidates(k, ctx[s].md)
    IN  /\ Seeded(s, k)
        /\ Enabled(k, opts[s], ctx[s].md)
        /\ i \in 1..Len(cands)
        /\ cands[i] = Prior(s).files[k].resource
        /\ \A j \in 1..(i - 1) : cands[j] \notin Working

\* C18: In the download stage of every kind, the candidate equal to the
\* resource seeded from the prior record is never passed to a fetcher; when
\* the walk reaches it the stage stops with the slot unchanged (same
\* resource, same existing path, nothing staged) and no later candidate is
\* tried.
C18_SeededNeverFetched ==
    \A s \in Songs : \A k \in SeededKinds :
        /\ Seeded(s, k) =>
               \A i \in 1..Len(fetched[s]) :
                   fetched[s][i] # <<k, Prior(s).files[k].resource>>
        /\ \A i \in 1..MaxCandidates :
               PassedStage(s, k) /\ ReachesSeedAt(s, k, i) =>
                   /\ ctx[s].out[k].resource = Prior(s).files[k].resource
                   /\ ctx[s].out[k].new_path = NoPath
                   /\ pc[s] \in {"video", "cover", "background", "tags", "cleanup"} =>
                          ctx[s].out[k].old_path =
                              file_path(ctx[s].folder, ctx[s].stem,
                                        Prior(s).files[k].fname, <<>>)
                   /\ KindFetches(s, k) = SubSeq(Candidates(k, ctx[s].md), 1, i - 1)

C18_Witness ==
    \E s \in Songs :
        /\ pc[s] = "done"
        /\ ReachesSeedAt(s, "audio", 2)
        /\ Candidates("audio", ctx[s].md) = <<"urlX", "urlA">>
        /\ KindFetches(s, "audio") = <<"urlX">>
        /\ Committed(s).files["audio"].resource = "urlA"

\* every candidate of the kind the resolver yields, uncapped
AllCandidates(k, md) ==
    IF k = "audio" THEN all_audio_resources(md) ELSE all_video_resources(md)

\* C19: For audio and for video separately, at most 10 candidates are
\* examined and at most 10 fetch calls are made, however many candidates
\* the resolver yields; the walk stops at the first successful fetch, so at
\* most one fetch per kind succeeds.
C19_CandidateCap ==
    \A s \in Songs : \A k \in {"audio", "video"} :
        LET calls == KindFetches(s, k)
        IN  /\ Len(calls) <= MaxCandidates
            /\ ctx[s] # NoCtx =>
                   /\ Len(calls) <= Len(AllCandidates(k, ctx[s].md))
                   /\ calls = SubSeq(AllCandidates(k, ctx[s].md), 1, Len(calls))
            /\ \A i \in 1..Len(calls) : download_ok(calls[i]) => i = Len(calls)

C19_Witness ==
    \E s \in Songs :
        /\ pc[s] = "done"
        /\ Len(AllCandidates("video", ctx[s].md)) > MaxCandidates
        /\ AllCandidates("video", ctx[s].md)[MaxCandidates + 1] \in Working
        /\ Len(KindFetches(s, "video")) = MaxCandidates
        /\ Len(KindFetches(s, "audio")) = MaxCandidates
        /\ Committed(s).files["video"] = NoFile

\* the video candidates, spelled out: the declared video, then the comment
\* videos in their order
VideoCandidatesAt(md, i) ==
    IF md.video # NoResource
    THEN IF i = 1 THEN md.video ELSE md.comments[i - 1]
    ELSE md.comments[i]

VideoCandidatesLen(md) ==
    Len(md.comments) + (IF md.video # NoResource THEN 1 ELSE 0)

\* the audio stage ran, with nothing seeded, on a declared audio that fails
\* and a declared video that downloads
AudioFromVideo(s) ==
    /\ PassedStage(s, "audio")
    /\ opts[s].audio
    /\ ctx[s].out["audio"].old_path = NoPath
    /\ ctx[s].md.audio \in Broken
    /\ ctx[s].md.video \in Working

\* C20 as stated: if the metadata declares an audio URL, the audio candidates
\* are that URL alone; the video candidates are yielded for audio only when
\* no audio URL is declared.
C20_VideoOnlyWithoutAudio ==
    \A s \in Songs :
        ctx[s] # NoCtx =>
            LET md == ctx[s].md
            IN  /\ md.audio # NoResource =>
                       /\ all_audio_resources(md) = <<md.audio>>
                       /\ \A i \in 1..Len(KindFetches(s, "audio")) :
                              KindFetches(s, "audio")[i] = md.audio
                /\ md.audio = NoResource =>
                       all_audio_resources(md) = all_video_resources(md)

\* C20 (amended): the audio candidates are the declared audio URL, if any,
\* followed in every case by the video candidates (the declared video URL,
\* then the comment video URLs in their order); a declared audio that fails
\* is followed by a fetch of the declared video for audio.
C20_AudioThenVideo ==
    \A s \in Songs :
        ctx[s] # NoCtx =>
            LET md == ctx[s].md
                a == all_audio_resources(md)
                n == IF md.audio # NoResource THEN 1 ELSE 0
            IN  /\ Len(a) = n + VideoCandidatesLen(md)
                /\ n = 1 => a[1] = md.audio
                /\ \A i \in 1..VideoCandidatesLen(md) :
                       a[n + i] = VideoCandidatesAt(md, i)
                /\ AudioFromVideo(s) =>
                       /\ KindFetches(s, "audio") = <<md.audio, md.video>>
                       /\ ctx[s].out["audio"].resource = md.video

C20_Witness ==
    \E s \in Songs :
        /\ pc[s] = "done"
        /\ AudioFromVideo(s)
        /\ all_audio_resources(ctx[s].md) = <<"urlX", "urlA">>
        /\ Committed(s).files["audio"] # NoFile
        /\ Committed(s).files["audio"].resource = "urlA"

\* no element occurs twice in the sequence
NoDuplicates(seq) ==
    \A i, j \in 1..Len(seq) : seq[i] = seq[j] => i = j

\* C21: The candidate list of each kind is deduplicated: within one run no
\* candidate is yielded, and therefore fetched, more than once for the same
\* kind.
C21_Deduplicated ==
    \A s \in Songs : \A k \in SeededKinds :
        /\ NoDuplicates(KindFetches(s, k))
        /\ ctx[s] # NoCtx => NoDuplicates(Candidates(k, ctx[s].md))

\* the tag stage of the run is over
TagsDone(s) ==
    /\ ctx[s] # NoCtx
    /\ pc[s] \in AfterStages \ {"tags"}

\* the format suffix of the file name, if it is one of the three known
SuffixOf(path) ==
    LET ext == path[2][Len(path[2])]
    IN  CASE ext = "m4a" -> ".m4a"
          [] ext = "mp3" -> ".mp3"
          [] ext = "ogg" -> ".ogg"
          [] OTHER -> NoResource

\* audio is enabled and the audio slot has a file of a known format
TaggableAudio(s) ==
    /\ opts[s].audio
    /\ TempPath(ctx[s].out["audio"]) # NoPath
    /\ SuffixOf(TempPath(ctx[s].out["audio"])) # NoResource

\* C22: Tag-writing dispatch: whenever audio is enabled and the audio slot
\* has a file, staged or reused, of one of the three known formats, the
\* writer of the file's extension is invoked exactly once on that file,
\* whatever the resource is; no writer runs when there is no audio file or
\* audio is disabled.
C22_TagDispatch ==
    \A s \in Songs :
        TagsDone(s) =>
            IF TaggableAudio(s)
            THEN /\ Len(tagged[s]) = 1
                 /\ tagged[s][1].writer = SuffixOf(TempPath(ctx[s].out["audio"]))
                 /\ pc[s] = "cleanup" =>
                        tagged[s][1].path = TempPath(ctx[s].out["audio"])
            ELSE tagged[s] = <<>>

\* the step is a tag writer call of the song that raised
WriterRaised(s) ==
    /\ tagged'[s] # tagged[s]
    /\ tagged'[s] # <<>>
    /\ ~tagged'[s][Len(tagged'[s])].ok

\* C23: A failure raised by an audio tag writer never changes the run's
\* outcome: the run goes on to cleanup as after a writer that succeeded,
\* and the tag stage leaves the audio slot's path and resource, the files
\* and the store as they were.
C23_WriterFailureCaught ==
    [][\A s \in Songs :
          WriterRaised(s) =>
              /\ pc[s] = "tags" /\ pc'[s] = "cleanup"
              /\ ctx'[s] = ctx[s]
              /\ UNCHANGED <<files, dirs, trash, store, song, events, db>>]_vars

C23_Witness ==
    \E s \in Songs :
        /\ pc[s] = "done"
        /\ Len(tagged[s]) = 1
        /\ ~tagged[s][1].ok
        /\ Committed(s).files["audio"] # NoFile
        /\ OnDisk(<<Committed(s).folder, Committed(s).files["audio"].fname>>)
        /\ TempDir(s) \notin dirs

\* the steps of one run, in the order of _run_inner and the else clause
RunOrder ==
    <<"audio", "video", "cover", "background", "tags", "cleanup", "folder", "txt",
      "persist", "exit_tmp", "sync_meta", "upsert", "done">>

IndexOf(p) == CHOOSE i \in 1..Len(RunOrder) : RunOrder[i] = p

InRunOrder(p) == \E i \in 1..Len(RunOrder) : RunOrder[i] = p

\* the step moves a staged file of the song out of the temp directory
MovesStaged(s) ==
    \E k \in KindSet :
        /\ ctx[s].out[k].new_path # NoPath
        /\ ctx[s].out[k].new_path[1] = TempDir(s)
        /\ ctx'[s].out[k].new_path # NoPath
        /\ ctx'[s].out[k].new_path[1] # TempDir(s)

\* C24: Within one run the steps happen strictly in this order: audio,
\* video, cover and background download, tag writing, cleanup, folder
\* rename, lyrics write, persist, removal of the temp directory, sync-record
\* write, store upsert; each step's effect happens at its own position only:
\* the lyrics file is written after the folder rename and the per-file
\* renames, and no staged file is moved before cleanup has run.
C24_StepOrder ==
    [][\A s \in Songs :
          InRunOrder(pc[s]) /\ InRunOrder(pc'[s]) =>
              /\ pc'[s] # pc[s] => IndexOf(pc'[s]) = IndexOf(pc[s]) + 1
              /\ fetched'[s] # fetched[s] =>
                     /\ pc[s] \in SeededKinds
                     /\ \A i \in (Len(fetched[s]) + 1)..Len(fetched'[s]) :
                            fetched'[s][i][1] = pc[s]
              /\ tagged'[s] # tagged[s] => pc[s] = "tags"
              /\ trash'[s] # trash[s] => pc[s] \in {"cleanup", "persist"}
              /\ ctx'[s].folder # ctx[s].folder => pc[s] = "folder"
              /\ ctx'[s].out["txt"] # ctx[s].out["txt"] => pc[s] \in {"txt", "persist"}
              /\ ctx'[s].headers # ctx[s].headers => pc[s] = "txt"
              /\ MovesStaged(s) => pc[s] = "persist"
              /\ (TempDir(s) \in dirs /\ TempDir(s) \notin dirs') => pc[s] = "exit_tmp"
              /\ ctx'[s].song_meta # ctx[s].song_meta => pc[s] = "sync_meta"
              /\ store'[s] # store[s] => pc[s] = "upsert"]_vars

C24_Witness ==
    \E s \in Songs :
        /\ pc[s] = "done"
        /\ FolderRenamed(s)
        /\ fetched[s] # <<>>
        /\ trash[s] # <<>>
        /\ ctx[s].out["txt"].new_path # NoPath
        /\ ctx[s].out["txt"].new_path[1] = Committed(s).folder
        /\ db[s].upserts = 1

\* the slot of the kind has a file staged in the temp directory
HasStaged(s, k) ==
    /\ ctx[s].out[k].new_path # NoPath
    /\ ctx[s].out[k].new_path[1] = TempDir(s)

\* where _persist_tempfiles moves the staged file of the kind
PersistTarget(s, k) == <<ctx[s].folder, ctx[s].out[k].new_path[2]>>

\* the paths the step adds to the trash of the song
NewlyTrashed(s) ==
    {trash'[s][i] : i \in (Len(trash[s]) + 1)..Len(trash'[s])}

\* the persist step of the song, run to its end
PersistCompletes(s) == pc[s] = "persist" /\ pc'[s] = "exit_tmp"

\* C25: Persist step: after it completes, every slot that had a staged path
\* has that file in the final folder under its canonical name and no staged
\* file remains in the temp directory; a file already at the target name is
\* trashed before the move, never silently overwritten.
C25_Persist ==
    [][\A s \in Songs :
          PersistCompletes(s) =>
              /\ \A k \in KindSet :
                     HasStaged(s, k) =>
                         /\ ctx'[s].out[k].new_path =
                                <<ctx[s].folder, CanonicalName(k, ctx[s].stem, opts[s])>>
                         /\ ctx'[s].out[k].new_path \in files'
                         /\ ctx[s].out[k].new_path \notin files'
                         /\ PersistTarget(s, k) \in files =>
                                PersistTarget(s, k) \in NewlyTrashed(s)
              /\ StagedFiles(s, files') = {}]_vars

C25_Witness ==
    \E s \in Songs :
        /\ pc[s] = "exit_tmp"
        /\ ctx[s].out["video"].new_path = <<ctx[s].folder, <<"X - Y", ".", "mp4">>>>
        /\ ctx[s].out["video"].new_path \in files
        /\ Prior(s) # NoMeta
        /\ Prior(s).files["video"] = NoFile
        /\ \E i \in 1..Len(trash[s]) : trash[s][i] = ctx[s].out["video"].new_path
        /\ StagedFiles(s, files) = {}

\* the old file of the kind is carried forward, nothing new is staged
KeptSlot(s, k) ==
    /\ Seeded(s, k)
    /\ ctx[s].out[k].new_path = NoPath

\* C26: Cleanup of kept files: for every slot whose old file is carried
\* forward with no new staged file, after cleanup the file's name is the
\* canonical name (the filename stem followed by the old file's ending), the
\* file was renamed only if its name differed, it is not trashed, and the
\* slot's existing path names it.
C26_KeptFileNames ==
    \A s \in Songs : \A k \in SeededKinds :
        pc[s] = "folder" /\ KeptSlot(s, k) =>
            LET old == Prior(s).files[k]
                canonical == filename_with_ending(ctx[s].stem, old.fname)
            IN  /\ ctx[s].out[k].old_path = <<ctx[s].folder, canonical>>
                /\ OnDisk(ctx[s].out[k].old_path)
                /\ old.fname = canonical => OnDisk(<<ctx[s].folder, old.fname>>)
                /\ \A i \in 1..Len(trash[s]) : trash[s][i][2] # old.fname

\* the step is the download stage of the kind, run to its end
StageStep(s, k) ==
    /\ pc[s] = k
    /\ InRunOrder(pc'[s])
    /\ pc'[s] # k

\* C27: Skip when disabled: if a kind is disabled by configuration, or for
\* video the song is audio-only, or for background none is needed beside a
\* video, the download stage of the kind makes no fetch call and leaves the
\* slot as seeded: resource, existing path and staged path unchanged.
C27_SkipWhenDisabled ==
    [][\A s \in Songs : \A k \in SeededKinds :
          ctx[s] # NoCtx /\ ~Enabled(k, opts[s], ctx[s].md) =>
              /\ StageStep(s, k) =>
                     /\ fetched'[s] = fetched[s]
                     /\ ctx'[s].out[k] = ctx[s].out[k]
                     /\ files' = files
              /\ PassedStage(s, k) =>
                     /\ KindFetches(s, k) = <<>>
                     /\ ctx[s].out[k].new_path = NoPath
                     /\ ctx[s].out[k].resource =
                            IF Seeded(s, k) THEN Prior(s).files[k].resource
                            ELSE NoResource]_vars

C27_Witness ==
    \E s \in Songs :
        /\ pc[s] = "done"
        /\ opts[s].video /\ ctx[s].md.audio_only /\ ctx[s].md.video = "urlA"
        /\ KindFetches(s, "video") = <<>>
        /\ Committed(s).files["video"] = NoFile

C27_WitnessBackground ==
    \E s \in Songs :
        /\ pc[s] = "done"
        /\ opts[s].background = "only_if_no_video"
        /\ ctx[s].md.video = "urlA" /\ ctx[s].md.background = "bgA"
        /\ Seeded(s, "background")
        /\ KindFetches(s, "background") = <<>>
        /\ Committed(s).files["background"] # NoFile

\* C28: The lyrics are always regenerated and never reused: in every
\* successful run the lyrics slot is not seeded from the prior record, a
\* fresh lyrics file is written and persisted into the final folder, a
\* previous lyrics file is trashed, and the committed record's lyrics file
\* is the newly written one.
C28_LyricsRegenerated ==
    \A s \in Songs :
        pc[s] = "done" =>
            /\ ctx[s].out["txt"].old_path = NoPath
            /\ Committed(s).files["txt"] # NoFile
            /\ ctx[s].out["txt"].new_path =
                   <<Committed(s).folder, Committed(s).files["txt"].fname>>
            /\ OnDisk(ctx[s].out["txt"].new_path)
            /\ (/\ Prior(s) # NoMeta
                /\ Prior(s).files["txt"] # NoFile
                /\ <<Prior(s).folder, Prior(s).files["txt"].fname>> \in before[s].files)
               => Count(trash[s], <<Prior(s).folder, Prior(s).files["txt"].fname>>) = 1

\* the files that back the slots of the run
Backing(s) ==
    {TempPath(ctx[s].out[k]) : k \in {k \in KindSet : TempPath(ctx[s].out[k]) # NoPath}}

\* the committed files of the slots have pairwise distinct names
DistinctNames(meta) ==
    \A j, k \in KindSet :
        (meta.files[j] # NoFile /\ meta.files[k] # NoFile /\ j # k) =>
            meta.files[j].fname # meta.files[k].fname

CheckedAlone(row) ==
    /\ child_checked[row]
    /\ Len(toggled) > 2
    /\ toggled[1] = Self
    /\ toggled[2] = row

\* C30: Filter-tree check state: after any sequence of toggle_checked calls
\* on the variant items and the filter item of one FilterItem, with
\* keep_siblings true or false, checked_children is the set of rows of the
\* children whose checked flag is true, the filter's checked and checkable
\* flags are true exactly when checked_children is non-empty, and a child
\* checked with keep_siblings false is the only checked child afterwards.
C30_TreeCheckState ==
    /\ checked_children = {row \in Rows : child_checked[row]}
    /\ filter_checked <=> checked_children # {}
    /\ filter_checkable <=> checked_children # {}
    /\ \A row \in Rows : CheckedAlone(row) => checked_children = {row}

C30_Witness ==
    /\ CheckedAlone(2)
    /\ toggled = <<Self, 2, 0, 1, Self>>
    /\ checked_children = {2}
    /\ filter_checked

=============================================================================
